---- MODULE Spec2Model ----
(***************************************************************************)
(* Model of core/technique_manager.py (TechniqueManager): the technique    *)
(* registry, the dependency resolver, the conflict checker and the         *)
(* pipeline runner apply_techniques.                                        *)
(***************************************************************************)
EXTENDS Integers, Sequences, FiniteSets, TLC

VARIABLES techniques, level_mappings, dependencies, conflicts, strict_mode,
          pc, request, context, applied_context, ordered_techniques,
          idx, result, invoked, conflict_list, error,
          functions, last_registered,
          source_code, mapping, rewritten,
          excluded_patterns, name_mapping, alias_mapping, draws,
          obfuscation_context, original_code, obfuscated_code, techniques_to_apply,
          call, invocations, context_owner

vars == <<techniques, level_mappings, dependencies, conflicts, strict_mode,
          pc, request, context, applied_context, ordered_techniques,
          idx, result, invoked, conflict_list, error,
          functions, last_registered,
          source_code, mapping, rewritten,
          excluded_patterns, name_mapping, alias_mapping, draws,
          obfuscation_context, original_code, obfuscated_code, techniques_to_apply,
          call, invocations, context_owner>>

registry == <<techniques, level_mappings, dependencies, conflicts, strict_mode,
              functions, last_registered>>

rewriting == <<source_code, mapping, rewritten>>

renaming == <<excluded_patterns, name_mapping, alias_mapping, draws,
              obfuscation_context, original_code, obfuscated_code, techniques_to_apply,
              call, invocations, context_owner>>

interleaving == <<invocations, context_owner>>

(* ---------------- bounds of the model ---------------- *)

\* technique names used by the model
Names == {"A", "B", "C"}

\* longest request list handed to an operation
MaxReq == 3

\* longest declared dependency list in the resolver specification
MaxDeps == 2

\* longest declared conflict list in the conflict-checker specification
MaxConf == 2

(* ---------------- helpers ---------------- *)

Range(s) == {s[i] : i \in DOMAIN s}

\* sequences over S of length at most n
SeqsUpTo(S, n) == UNION {[1..k -> S] : k \in 0..n}

\* the same, without repeated elements
DistinctSeqsUpTo(S, n) ==
    {s \in SeqsUpTo(S, n) : \A i, j \in DOMAIN s : s[i] = s[j] => i = j}

\* position of the first occurrence of x in s (0 when absent)
FirstPos(x, s) ==
    IF x \in Range(s) THEN CHOOSE i \in DOMAIN s : s[i] = x /\ \A j \in 1..(i-1) : s[j] # x
    ELSE 0

NoError == [kind |-> "none", name |-> "", cause |-> ""]

\* the caller passed no context (context=None); .supplied keeps the keys the
\* caller's dictionary had when it was passed
NoContext == [given |-> FALSE, keys |-> {}, supplied |-> {}]

\* the source text handed to apply_techniques: a text no transform has touched
SourceText == [hist |-> <<>>, isText |-> TRUE]

(* ---------------- resolve_dependencies ---------------- *)

\* lines 105-107: the declared dependencies of a technique that are requested
RequestedDepsIgnored(technique, deps, techs) == <<>>

\* lines 105-107 with the test of line 107 left out
RequestedDepsUnfiltered(technique, deps, techs) == deps[technique]

RequestedDeps(technique, deps, techs) ==
    SelectSeq(deps[technique], LAMBDA dep : dep \in Range(techs))

\* lines 110-114 with the remove of the temporary mark left out
FinishVisitKeepTemp(technique, st) ==
    [st EXCEPT !.visited = @ \cup {technique},
               !.resolved = IF technique \in Range(@) THEN @ ELSE Append(@, technique)]

\* lines 110-114 with the technique put in front of the result
FinishVisitPrepend(technique, st) ==
    [st EXCEPT !.temp_visited = @ \ {technique},
               !.visited = @ \cup {technique},
               !.resolved = IF technique \in Range(@) THEN @ ELSE <<technique>> \o @]

\* lines 110-114: unmark, finalize and append once
FinishVisit(technique, st) ==
    [st EXCEPT !.temp_visited = @ \ {technique},
               !.visited = @ \cup {technique},
               !.resolved = IF technique \in Range(@) THEN @ ELSE Append(@, technique)]

RECURSIVE visit(_, _, _, _), visit_deps(_, _, _, _, _)

\* lines 106-108: the loop over the requested dependencies; a raise ends it
visit_deps(ds, k, st, deps, techs) ==
    IF k > Len(ds) \/ st.raised # "" THEN st
    ELSE visit_deps(ds, k + 1, visit(ds[k], st, deps, techs), deps, techs)

\* lines 95-114: st.raised names the technique of the raised ValueError
visit(technique, st, deps, techs) ==
    IF st.raised # "" THEN st
    ELSE IF technique \in st.temp_visited THEN [st EXCEPT !.raised = technique]
    ELSE IF technique \in st.visited THEN st
    ELSE LET marked == [st EXCEPT !.temp_visited = @ \cup {technique}]
             after == visit_deps(RequestedDeps(technique, deps, techs), 1, marked, deps, techs)
         IN  IF after.raised # "" THEN after ELSE FinishVisit(technique, after)

RECURSIVE visit_all(_, _, _, _)

\* lines 116-117: the loop over the request
visit_all(k, st, deps, techs) ==
    IF k > Len(techs) \/ st.raised # "" THEN st
    ELSE visit_all(k + 1, visit(techs[k], st, deps, techs), deps, techs)

\* lines 81-119: .resolved is the returned list unless .raised names a technique
resolve_dependencies(techs, deps) ==
    visit_all(1, [resolved |-> <<>>, visited |-> {}, temp_visited |-> {}, raised |-> ""],
              deps, techs)

(* ---------------- check_conflicts ---------------- *)

RECURSIVE conflicts_of(_, _, _, _)

\* lines 134-137: the descriptions one requested technique contributes
conflicts_of(technique, cs, k, techs) ==
    IF k > Len(cs) THEN <<>>
    ELSE (IF cs[k] \in Range(techs) THEN <<<<technique, cs[k]>>>> ELSE <<>>)
         \o conflicts_of(technique, cs, k + 1, techs)

RECURSIVE check_from(_, _, _)

check_from(k, techs, confl) ==
    IF k > Len(techs) THEN <<>>
    ELSE conflicts_of(techs[k], confl[techs[k]], 1, techs) \o check_from(k + 1, techs, confl)

\* the check looking only at the first requested technique's declarations
check_conflicts_first_only(techs, confl) ==
    IF techs = <<>> THEN <<>> ELSE conflicts_of(techs[1], confl[techs[1]], 1, techs)

\* lines 121-139: the list of "<technique> conflicts with <conflict>" pairs
check_conflicts(techs, confl) == check_from(1, techs, confl)

(* ---------------- reference relations used by the properties ------------- *)

\* a depends on b, both requested: the edges the resolver follows
RequestedEdges(techs, deps) ==
    {e \in Range(techs) \X Range(techs) : e[2] \in Range(deps[e[1]])}

RECURSIVE PathsUpTo(_, _)

\* pairs joined by a path of at least one and at most n edges of E
PathsUpTo(E, n) ==
    IF n <= 1 THEN E
    ELSE LET P == PathsUpTo(E, n - 1)
         IN  P \cup {<<q[1][1], q[2][2]>> : q \in {r \in P \X E : r[1][2] = r[2][1]}}

DependsOn(techs, deps) == PathsUpTo(RequestedEdges(techs, deps), Cardinality(Names))

Cyclic(techs, deps) == \E t \in Range(techs) : <<t, t>> \in DependsOn(techs, deps)

(* ---------------- the registry states the specifications start from ------ *)

\* no register_technique call has been recorded
NoCall == [count |-> 0, name |-> "", func |-> "", level |-> 0,
           dependencies |-> <<>>, conflicts |-> <<>>]

\* no text is being rewritten
NoRewrite == source_code = <<>> /\ mapping = <<>> /\ rewritten = <<>>

\* a program text as the names it holds, by the place they stand in, with
\* whether its import lines stand inside a block and whether ast.parse
\* accepts it
NoCode == [stores |-> {}, loads |-> {}, calls |-> {}, defs |-> {}, imports |-> {},
           indented |-> FALSE, parses |-> TRUE]

\* no call of the obfuscator has been made: the number of calls so far,
\* whether one is under way and of which kind, the number of names drawn
\* before it, the source it was given, the names of the mapping the last
\* technique handed to the rewrite step, the techniques reported as failed,
\* and what the call returned
NoRun == [count |-> 0, active |-> FALSE, kind |-> "none", first_draw |-> 0,
          source |-> NoCode, passed |-> {}, failed |-> {},
          returned |-> [from |-> "none", code |-> NoCode]]

\* no context of a run: no key and no entry
NoObfuscationContext ==
    [keys |-> {}, variable_mapping |-> <<>>, function_mapping |-> <<>>,
     alias_mapping |-> <<>>, reserved_names |-> {}]

\* no obfuscator has been constructed
\* no invocation of obfuscate under way, self.obfuscation_context not yet set
NoInvocations ==
    /\ invocations = <<>>
    /\ context_owner = 0

NoRenaming ==
    /\ excluded_patterns = {}
    /\ name_mapping = <<>>
    /\ alias_mapping = <<>>
    /\ draws = 0
    /\ obfuscation_context = NoObfuscationContext
    /\ original_code = NoCode
    /\ obfuscated_code = NoCode
    /\ techniques_to_apply = <<>>
    /\ call = NoRun
    /\ NoInvocations

\* the values of self.techniques: every registered name holds a function
RegisteredFunctions ==
    /\ functions = [n \in Names |-> IF n \in techniques THEN "f1" ELSE "none"]
    /\ last_registered = NoCall
    /\ NoRewrite
    /\ NoRenaming

AllLevels == [lvl \in 1..4 |-> <<"A", "B", "C">>]

NoDeclarations == [n \in Names |-> <<>>]

IdleRun ==
    /\ pc = "Idle"
    /\ context = NoContext
    /\ applied_context = [shared |-> FALSE, keys |-> {}]
    /\ ordered_techniques = <<>>
    /\ idx = 0
    /\ result = SourceText
    /\ invoked = <<>>
    /\ conflict_list = <<>>
    /\ error = NoError

(* ---------------- specification of the dependency resolver --------------- *)

InitResolve ==
    /\ techniques = Names
    /\ level_mappings = AllLevels
    /\ dependencies \in [Names -> DistinctSeqsUpTo(Names, MaxDeps)]
    /\ conflicts = NoDeclarations
    /\ strict_mode = FALSE
    /\ request \in SeqsUpTo(Names, MaxReq)
    /\ RegisteredFunctions
    /\ IdleRun

\* a caller's resolve_dependencies(request), lines 81-119
ResolveCall ==
    /\ pc = "Idle"
    /\ LET r == resolve_dependencies(request, dependencies)
       IN  /\ ordered_techniques' = (IF r.raised = "" THEN r.resolved ELSE <<>>)
           /\ error' = (IF r.raised = "" THEN NoError
                        ELSE [kind |-> "circular", name |-> r.raised, cause |-> ""])
    /\ pc' = "Resolved"
    /\ UNCHANGED <<registry, rewriting, renaming, request, context, applied_context, idx, result,
                   invoked, conflict_list>>

NextResolve == ResolveCall

SpecResolve == InitResolve /\ [][NextResolve]_vars

\* C1: for an acyclic request resolve_dependencies returns an order in which
\* every requested technique comes after each of its requested dependencies
C1_DependencyOrder ==
    (pc = "Resolved" /\ ~Cyclic(request, dependencies)) =>
        /\ error = NoError
        /\ \A e \in RequestedEdges(request, dependencies) :
              /\ FirstPos(e[1], ordered_techniques) > 0
              /\ FirstPos(e[2], ordered_techniques) > 0
              /\ FirstPos(e[2], ordered_techniques) < FirstPos(e[1], ordered_techniques)

\* the spec's example: A depends on B, B depends on C, request [A, C, B]
C1_Witness ==
    /\ pc = "Resolved"
    /\ request = <<"A", "C", "B">>
    /\ dependencies = [n \in Names |-> IF n = "A" THEN <<"B">>
                                        ELSE IF n = "B" THEN <<"C">> ELSE <<>>]
    /\ ordered_techniques = <<"C", "B", "A">>

\* C2: the circular-dependency error is raised exactly when the requested
\* dependency edges contain a cycle, and it names a technique on a cycle
C2_CycleDetection ==
    pc = "Resolved" =>
        /\ (error.kind = "circular") <=> Cyclic(request, dependencies)
        /\ error.kind = "circular" =>
              <<error.name, error.name>> \in DependsOn(request, dependencies)

\* X depends on Y, Y depends on X, both requested
C2_Witness ==
    /\ pc = "Resolved"
    /\ error.kind = "circular"
    /\ \E x, y \in Range(request) :
          /\ x # y
          /\ y \in Range(dependencies[x])
          /\ x \in Range(dependencies[y])
          /\ x \notin Range(dependencies[x])
          /\ y \notin Range(dependencies[y])

\* x and y are requested, x first, and no dependency path joins them
Unrelated(x, y) ==
    /\ x \in Range(request) /\ y \in Range(request)
    /\ FirstPos(x, request) < FirstPos(y, request)
    /\ <<x, y>> \notin DependsOn(request, dependencies)
    /\ <<y, x>> \notin DependsOn(request, dependencies)

\* some technique requested before x depends, directly or not, on y
PulledForward(x, y) ==
    \E z \in Range(request) :
        /\ FirstPos(z, request) < FirstPos(x, request)
        /\ <<z, y>> \in DependsOn(request, dependencies)

\* C10 as stated: two requested techniques with no dependency path between
\* them keep the relative order of the request
C10_RequestOrderKept ==
    (pc = "Resolved" /\ error = NoError) =>
        \A x, y \in Names :
            Unrelated(x, y) =>
                FirstPos(x, ordered_techniques) < FirstPos(y, ordered_techniques)

\* C10 amended: two requested techniques with no dependency path between them
\* keep the relative order of the request unless the later one is a direct or
\* transitive dependency of a technique requested before the earlier one
C10_RequestOrderKeptUnlessPulled ==
    (pc = "Resolved" /\ error = NoError) =>
        \A x, y \in Names :
            (Unrelated(x, y) /\ ~PulledForward(x, y)) =>
                /\ FirstPos(x, ordered_techniques) > 0
                /\ FirstPos(x, ordered_techniques) < FirstPos(y, ordered_techniques)

\* two unrelated techniques in a request that also has a dependency edge
C10_Witness ==
    /\ pc = "Resolved"
    /\ error = NoError
    /\ RequestedEdges(request, dependencies) # {}
    /\ \E x, y \in Names : Unrelated(x, y) /\ ~PulledForward(x, y)

\* C11: for an acyclic request the returned list holds every distinct
\* requested name exactly once and no other name
C11_ExactlyTheRequested ==
    (pc = "Resolved" /\ ~Cyclic(request, dependencies)) =>
        /\ error = NoError
        /\ Range(ordered_techniques) = Range(request)
        /\ \A i, j \in DOMAIN ordered_techniques :
              ordered_techniques[i] = ordered_techniques[j] => i = j

\* a name requested twice whose declared dependency is not requested
C11_Witness ==
    /\ pc = "Resolved"
    /\ error = NoError
    /\ Len(request) = 3
    /\ request[1] = request[3]
    /\ request[1] # request[2]
    /\ \E d \in Range(dependencies[request[1]]) : d \notin Range(request)
    /\ Len(ordered_techniques) = 2

(* ---------------- specification of the conflict checker ------------------ *)

InitConflicts ==
    /\ techniques = Names
    /\ level_mappings = AllLevels
    /\ dependencies = NoDeclarations
    /\ conflicts \in [Names -> DistinctSeqsUpTo(Names, MaxConf)]
    /\ strict_mode = FALSE
    /\ request \in SeqsUpTo(Names, MaxReq)
    /\ RegisteredFunctions
    /\ IdleRun

\* a caller's check_conflicts(request), lines 121-139
CheckConflictsCall ==
    /\ pc = "Idle"
    /\ conflict_list' = check_conflicts(request, conflicts)
    /\ pc' = "Checked"
    /\ UNCHANGED <<registry, rewriting, renaming, request, context, applied_context, ordered_techniques,
                   idx, result, invoked, error>>

NextConflicts == CheckConflictsCall

SpecConflicts == InitConflicts /\ [][NextConflicts]_vars

\* a and b are requested and one of them declares the other as a conflict
\* (a and b range over the requested names and may be the same name)
DeclaredConflict(techs, confl) ==
    \E a, b \in Range(techs) : b \in Range(confl[a]) \/ a \in Range(confl[b])

\* C3: check_conflicts returns a non-empty list exactly when the request holds
\* names a and b with b in a's conflict list or a in b's, whatever their order
C3_ConflictsDetected ==
    pc = "Checked" => ((conflict_list # <<>>) <=> DeclaredConflict(request, conflicts))

\* a conflict declared only by the technique requested second
C3_Witness ==
    /\ pc = "Checked"
    /\ Len(request) = 2
    /\ request[1] # request[2]
    /\ request[1] \in Range(conflicts[request[2]])
    /\ conflicts[request[1]] = <<>>
    /\ conflict_list = <<<<request[2], request[1]>>>>

(* ---------------- apply_techniques: the pipeline runner ------------------ *)

\* the context key "<name>_applied" of line 182
Flag(name) == <<name, "_applied">>

\* a key a transform leaves in the context it is handed (a mapping, a name set)
Data(name) == <<name, "data">>

\* the dictionaries a caller passes: an empty one and one with an entry
ContextChoices ==
    {NoContext,
     [given |-> TRUE, keys |-> {}, supplied |-> {}],
     [given |-> TRUE, keys |-> {<<"original_code", "">>},
      supplied |-> {<<"original_code", "">>}]}

\* what one call of a technique function does: it returns a text, raises, or
\* returns a value that is no text (None)
Outcomes == {"ok", "raise", "nontext"}

\* the value a technique function returns: the text it was given with this
\* technique's rewriting on top, or a value without a length
Returned(name, text, outcome) ==
    [hist |-> Append(text.hist, name), isText |-> (outcome = "ok")]

\* lines 159-165 with the conflict check left out
ValidationErrorNoConflicts(techs, confl, deps) ==
    LET r == resolve_dependencies(techs, deps)
    IN  IF r.raised # "" THEN [kind |-> "circular", name |-> r.raised, cause |-> ""]
        ELSE NoError

\* lines 159-165: the ValueError raised before the loop, if any
ValidationError(techs, confl, deps) ==
    IF check_conflicts(techs, confl) # <<>>
    THEN [kind |-> "conflict", name |-> "", cause |-> ""]
    ELSE LET r == resolve_dependencies(techs, deps)
         IN  IF r.raised # "" THEN [kind |-> "circular", name |-> r.raised, cause |-> ""]
             ELSE NoError

\* line 169, context or {}: an absent or empty dictionary is replaced by a new one
ContextOrNew(ctx) ==
    IF ctx.given /\ ctx.keys # {} THEN [shared |-> TRUE, keys |-> ctx.keys]
    ELSE [shared |-> FALSE, keys |-> {}]

\* line 171 walking the resolved order from its end
TechniqueAtReversed(ordered, i) == ordered[Len(ordered) + 1 - i]

\* line 171: the loop takes the resolved order front to back
TechniqueAt(ordered, i) == ordered[i]

\* line 180 with the assignment done although the call raised
ResultAfterAssignedAnyway(name, text, outcome) == Returned(name, text, outcome)

\* line 180: result is assigned only when the call returns
ResultAfter(name, text, outcome) ==
    IF outcome = "raise" THEN text ELSE Returned(name, text, outcome)

\* line 188 with the flag ignored
FailureIsFatalNever(strict) == FALSE

\* line 188: a failure ends the run only under strict_mode
FailureIsFatal(strict) == strict

\* the exception the except clause of line 186 catches
CauseOf(outcome) == IF outcome = "raise" THEN "TransformError" ELSE "TypeError"

InitPipeline ==
    /\ techniques \in {Names, Names \ {"C"}}
    /\ level_mappings = [lvl \in 1..4 |-> SelectSeq(<<"A", "B", "C">>,
                                                    LAMBDA n : n \in techniques)]
    /\ dependencies \in {[n \in Names |-> IF n = "A" THEN a ELSE IF n = "B" THEN b ELSE <<>>] :
                            a \in {<<>>, <<"B">>, <<"A">>}, b \in {<<>>, <<"A">>, <<"C">>}}
    /\ conflicts \in {[n \in Names |-> IF n = "A" THEN a ELSE IF n = "B" THEN b ELSE <<>>] :
                            a \in {<<>>, <<"B">>}, b \in {<<>>, <<"C">>}}
    /\ strict_mode \in BOOLEAN
    /\ request = <<>>
    /\ RegisteredFunctions
    /\ IdleRun

\* lines 141-157: the call; an empty technique list returns the code at once
Call ==
    /\ pc = "Idle"
    /\ \E techs \in SeqsUpTo(Names, MaxReq), ctx \in ContextChoices :
          /\ request' = techs
          /\ context' = ctx
          /\ pc' = IF techs = <<>> THEN "Done" ELSE "Validating"
    /\ UNCHANGED <<registry, rewriting, renaming, applied_context, ordered_techniques, idx, result,
                   invoked, conflict_list, error>>

\* lines 159-169: conflicts, then the order, then the loop's starting state
Validate ==
    /\ pc = "Validating"
    /\ conflict_list' = check_conflicts(request, conflicts)
    /\ LET e == ValidationError(request, conflicts, dependencies)
       IN  IF e # NoError
           THEN /\ pc' = "Aborted"
                /\ error' = e
                /\ UNCHANGED <<ordered_techniques, applied_context, idx>>
           ELSE /\ pc' = "Running"
                /\ ordered_techniques' = resolve_dependencies(request, dependencies).resolved
                /\ applied_context' = ContextOrNew(context)
                /\ idx' = 1
                /\ UNCHANGED error
    /\ UNCHANGED <<registry, rewriting, renaming, request, context, result, invoked>>

\* the loop goes on to the next technique, or line 191 returns
Advance ==
    /\ pc' = IF idx = Len(ordered_techniques) THEN "Done" ELSE "Running"
    /\ idx' = idx + 1
    /\ UNCHANGED error

\* lines 186-189: the failure is printed, and raised again under strict_mode
Fail(name, cause) ==
    IF FailureIsFatal(strict_mode)
    THEN /\ pc' = "Aborted"
         /\ error' = [kind |-> "technique_failed", name |-> name, cause |-> cause]
         /\ UNCHANGED idx
    ELSE Advance

\* the keys of the dictionary the loop writes to; the caller's dictionary
\* changes with it only when it is the same object
WriteContext(keys) ==
    /\ applied_context' = [applied_context EXCEPT !.keys = keys]
    /\ context' = IF applied_context.shared THEN [context EXCEPT !.keys = keys] ELSE context

\* lines 171-189: one iteration of the loop
Step ==
    /\ pc = "Running"
    /\ LET name == TechniqueAt(ordered_techniques, idx)
       IN  IF name \notin techniques
           THEN \* lines 172-173
                /\ pc' = "Aborted"
                /\ error' = [kind |-> "unknown", name |-> name, cause |-> ""]
                /\ UNCHANGED <<idx, result, invoked, context, applied_context>>
           ELSE IF ~result.isText
           THEN \* line 179: len() of a value without a length raises
                /\ Fail(name, "TypeError")
                /\ UNCHANGED <<result, invoked, context, applied_context>>
           ELSE \E outcome \in Outcomes :
                /\ invoked' = Append(invoked, [name |-> name, text |-> result,
                                               ctx |-> applied_context.keys,
                                               outcome |-> outcome])
                /\ result' = ResultAfter(name, result, outcome)
                /\ IF outcome = "ok"
                   THEN /\ WriteContext(applied_context.keys \cup {Data(name), Flag(name)})
                        /\ Advance
                   ELSE /\ WriteContext(applied_context.keys \cup {Data(name)})
                        /\ Fail(name, CauseOf(outcome))
    /\ UNCHANGED <<registry, rewriting, renaming, request, ordered_techniques, conflict_list>>

Next == Call \/ Validate \/ Step

Spec == InitPipeline /\ [][Next]_vars

(* ---------------- properties of the pipeline runner ---------------------- *)

\* the techniques whose transform returned a text in this run
AppliedNames == {invoked[k].name : k \in {j \in DOMAIN invoked : invoked[j].outcome = "ok"}}

\* the techniques the caller's dictionary marks as applied
FlaggedNames(keys) == {n \in Names : Flag(n) \in keys}

RECURSIVE Composition(_)

\* the source with the transforms of the first k calls that did not raise
\* applied to it in call order
Composition(k) ==
    IF k = 0 THEN SourceText
    ELSE IF invoked[k].outcome = "raise" THEN Composition(k - 1)
    ELSE Returned(invoked[k].name, Composition(k - 1), invoked[k].outcome)

\* the text of the most recent call before the k-th that returned a text,
\* as that call returned it; the source when there is none
LastAppliedText(k) ==
    LET oks == {j \in 1..(k - 1) : invoked[j].outcome = "ok"}
    IN  IF oks = {} THEN SourceText
        ELSE LET j == CHOOSE m \in oks : \A n \in oks : n <= m
             IN  Returned(invoked[j].name, invoked[j].text, "ok")

\* C4: a request with a declared conflict or a circular dependency is rejected
\* in Validating: the run never enters Running, no transform is invoked, no
\* flag is set and the caller's context stays as supplied
C4_RejectedBeforeAnyTransform ==
    (pc # "Idle" /\ (DeclaredConflict(request, conflicts) \/ Cyclic(request, dependencies))) =>
        /\ pc \in {"Validating", "Aborted"}
        /\ pc = "Aborted" => error.kind \in {"conflict", "circular"}
        /\ invoked = <<>>
        /\ result = SourceText
        /\ applied_context.keys = {}
        /\ context.keys = context.supplied

\* P conflicts with Q, requested as [P, Q], with a context that has entries
C4_Witness ==
    /\ pc = "Aborted"
    /\ error.kind = "conflict"
    /\ request = <<"A", "B">>
    /\ conflict_list = <<<<"A", "B">>>>
    /\ context.given /\ context.keys # {}

\* C5: in lenient mode a transform that raises leaves the text as it was, the
\* next technique is handed that text, the run goes on, and the final text is
\* the composition in resolved order of the transforms that did not raise
C5_LenientContinuation ==
    ~strict_mode =>
        /\ \A k \in DOMAIN invoked :
              invoked[k].outcome = "raise" =>
                  /\ ~(pc = "Aborted" /\ error.kind = "technique_failed")
                  /\ k < Len(invoked) => invoked[k + 1].text = invoked[k].text
                  /\ k = Len(invoked) => result = invoked[k].text
        /\ pc = "Done" => result = Composition(Len(invoked))
        /\ (pc = "Done" /\ result.isText) =>
              /\ Len(invoked) = Len(ordered_techniques)
              /\ \A k \in DOMAIN invoked : invoked[k].name = ordered_techniques[k]

\* [A, B, C] with B raising ends with C(A(source))
C5_Witness ==
    /\ ~strict_mode
    /\ pc = "Done"
    /\ ordered_techniques = <<"A", "B", "C">>
    /\ Len(invoked) = 3
    /\ invoked[2].outcome = "raise"
    /\ result = [hist |-> <<"A", "C">>, isText |-> TRUE]

\* C6: in strict mode the first transform that raises ends the run with an
\* error that carries the technique's name and the cause, and no later
\* technique is invoked
C6_StrictAbort ==
    strict_mode =>
        \A k \in DOMAIN invoked :
            invoked[k].outcome = "raise" =>
                /\ k = Len(invoked)
                /\ pc = "Aborted"
                /\ error = [kind |-> "technique_failed", name |-> invoked[k].name,
                            cause |-> "TransformError"]

\* the second of three resolved techniques raises under strict_mode
C6_Witness ==
    /\ strict_mode
    /\ pc = "Aborted"
    /\ Len(ordered_techniques) = 3
    /\ Len(invoked) = 2
    /\ invoked[2].outcome = "raise"
    /\ error.name = ordered_techniques[2]

\* a requested name that is not registered
UnknownRequested == \E n \in Range(request) : n \notin techniques

\* C7 as stated: a request with an unregistered name ends with the
\* unknown-technique error in both modes, and until then no transform has
\* been invoked and no flag has been set
C7_UnknownRejectedUpFront ==
    (pc \in {"Running", "Done", "Aborted"} /\ UnknownRequested
        /\ ~DeclaredConflict(request, conflicts) /\ ~Cyclic(request, dependencies)) =>
        /\ invoked = <<>>
        /\ FlaggedNames(applied_context.keys) = {}
        /\ pc # "Done"
        /\ pc = "Aborted" => error.kind = "unknown"

\* C8 as stated: when apply_techniques has returned, the caller's dictionary
\* flags exactly the techniques whose transform returned a text in this run
C8_FlagsForApplied ==
    (pc = "Done" /\ context.given) => FlaggedNames(context.keys) = AppliedNames

\* C9: the transforms are invoked in the resolved order, each resolved
\* technique at most once, each with the text of the most recent transform
\* that succeeded (the source if none) and with the one context object
C9_SequentialInOrder ==
    /\ \A i, j \in DOMAIN ordered_techniques :
          ordered_techniques[i] = ordered_techniques[j] => i = j
    /\ Len(invoked) <= Len(ordered_techniques)
    /\ \A k \in DOMAIN invoked :
          /\ invoked[k].name = ordered_techniques[k]
          /\ invoked[k].text = LastAppliedText(k)
          /\ \A j \in 1..(k - 1) : Data(invoked[j].name) \in invoked[k].ctx

\* three transforms invoked in an order the resolver changed, the first raising
C9_Witness ==
    /\ Len(invoked) = 3
    /\ request # ordered_techniques
    /\ invoked[1].outcome = "raise"
    /\ invoked[2].outcome = "ok"
    /\ invoked[3].text.hist = <<ordered_techniques[2]>>

\* C28 as stated: in a lenient run the text the loop holds is the source or
\* the value returned by a call whose technique was recorded as applied; a
\* call reported as failed (a value that is no text included) leaves the text
\* as it was
C28_TextFromAppliedOnly ==
    ~strict_mode =>
        /\ \/ result = SourceText
           \/ \E k \in DOMAIN invoked :
                 /\ Flag(invoked[k].name) \in applied_context.keys
                 /\ result = Returned(invoked[k].name, invoked[k].text, invoked[k].outcome)
        /\ \A k \in DOMAIN invoked :
              Flag(invoked[k].name) \notin applied_context.keys =>
                  /\ k < Len(invoked) => invoked[k + 1].text = invoked[k].text
                  /\ k = Len(invoked) => result = invoked[k].text

(* ---------------- the technique registry --------------------------------- *)

\* the functions, levels and declarations the register_technique calls pass
Funcs == {"f1", "f2"}

Levels == 1..4

DeclaredDeps == {<<>>, <<"B">>}

DeclaredConflicts == {<<>>, <<"C">>}

\* the number of register_technique calls of a run
MaxRegs == 2

\* line 59 adding the name to the given level only
LevelsFromOnlyItself(level) == {level}

\* line 59, range(level, 5): the given level and every higher one
LevelsFrom(level) == level..4

\* lines 63-67 storing whatever list is passed
DeclarationStoredAlways(old, passed) == passed

\* lines 63-67: a list is stored only when it is given and not empty
DeclarationStored(old, passed) == IF passed # <<>> THEN passed ELSE old

\* lines 40-67
register_technique(name, func, level, deps, confl) ==
    /\ last_registered.count < MaxRegs
    /\ techniques' = techniques \cup {name}
    /\ functions' = [functions EXCEPT ![name] = func]
    /\ level_mappings' =
          [lvl \in 1..4 |->
              IF lvl \in LevelsFrom(level) /\ name \notin Range(level_mappings[lvl])
              THEN Append(level_mappings[lvl], name)
              ELSE level_mappings[lvl]]
    /\ dependencies' = [dependencies EXCEPT ![name] = DeclarationStored(@, deps)]
    /\ conflicts' = [conflicts EXCEPT ![name] = DeclarationStored(@, confl)]
    /\ last_registered' = [count |-> last_registered.count + 1, name |-> name,
                           func |-> func, level |-> level,
                           dependencies |-> deps, conflicts |-> confl]
    /\ UNCHANGED <<strict_mode, pc, request, context, applied_context,
                   ordered_techniques, idx, result, invoked, conflict_list, error,
                   rewriting, renaming>>

\* lines 69-79
get_techniques_for_level(level) ==
    IF level \in DOMAIN level_mappings THEN level_mappings[level] ELSE <<>>

\* lines 193-216; an unknown name gives the empty dictionary
get_technique_info(technique_name) ==
    IF technique_name \notin techniques THEN [name |-> ""]
    ELSE LET levels == {lvl \in 1..4 : technique_name \in Range(level_mappings[lvl])}
         IN  [name |-> technique_name,
              levels |-> levels,
              min_level |-> IF levels = {} THEN 0
                            ELSE CHOOSE m \in levels : \A l \in levels : m <= l,
              dependencies |-> dependencies[technique_name],
              conflicts |-> conflicts[technique_name],
              function |-> functions[technique_name]]

\* lines 22-38: the manager as constructed
NewManager ==
    /\ techniques = {}
    /\ functions = [n \in Names |-> "none"]
    /\ level_mappings = [lvl \in 1..4 |-> <<>>]
    /\ dependencies = NoDeclarations
    /\ conflicts = NoDeclarations
    /\ strict_mode = FALSE
    /\ last_registered = NoCall
    /\ request = <<>>
    /\ IdleRun

InitRegistry == NewManager /\ NoRewrite /\ NoRenaming

Register ==
    \E name \in Names, func \in Funcs, level \in Levels,
       deps \in DeclaredDeps, confl \in DeclaredConflicts :
        register_technique(name, func, level, deps, confl)

NextRegistry == Register

SpecRegistry == InitRegistry /\ [][NextRegistry]_vars

\* C12: after any register_technique calls with levels 1..4, the techniques of
\* level n are among those of level n+1, for n = 1, 2, 3
C12_LevelMonotonic ==
    \A n \in 1..3 :
        Range(get_techniques_for_level(n)) \subseteq Range(get_techniques_for_level(n + 1))

\* a name registered at level 1 and registered again at level 3
C12_Witness ==
    /\ last_registered.count = 2
    /\ last_registered.level = 3
    /\ get_techniques_for_level(1) = <<last_registered.name>>
    /\ get_techniques_for_level(4) = <<last_registered.name>>

\* C13 as stated: after a registration get_technique_info of that name gives
\* the function, min_level, dependencies and conflicts of that call, and the
\* name is in level k's list exactly when k is at least that call's level
C13_LatestRegistrationOnly ==
    last_registered.count > 0 =>
        LET info == get_technique_info(last_registered.name)
        IN  /\ info.function = last_registered.func
            /\ info.min_level = last_registered.level
            /\ info.dependencies = last_registered.dependencies
            /\ info.conflicts = last_registered.conflicts
            /\ \A k \in 1..4 :
                  (last_registered.name \in Range(get_techniques_for_level(k)))
                      <=> (k >= last_registered.level)

RECURSIVE suggest_from(_, _, _, _)

\* technique_manager.py lines 242-252: the loop over the available techniques
suggest_from(available, k, exclude, suggested) ==
    IF k > Len(available) THEN suggested
    ELSE LET technique == available[k]
         IN  IF technique \in Range(exclude)
             THEN suggest_from(available, k + 1, exclude, suggested)
             ELSE IF Range(conflicts[technique]) \cap Range(suggested) # {}
                  THEN suggest_from(available, k + 1, exclude, suggested)
                  ELSE suggest_from(available, k + 1, exclude, Append(suggested, technique))

\* technique_manager.py lines 228-254
suggest_techniques(level, exclude) ==
    suggest_from(get_techniques_for_level(level), 1, exclude, <<>>)

\* the exclude lists handed to suggest_techniques (None is the empty list)
Excludes == SeqsUpTo(Names, 1)

\* C25 as stated: the suggested list holds no excluded name and no two names
\* of which one declares the other as a conflict, so check_conflicts of the
\* list is empty (registries in which a technique names itself as its own
\* conflict are left aside)
C25_SuggestedConflictFree ==
    (\A n \in Names : n \notin Range(conflicts[n])) =>
        \A level \in Levels, exclude \in Excludes :
            LET suggested == suggest_techniques(level, exclude)
            IN  /\ Range(suggested) \cap Range(exclude) = {}
                /\ \A a, b \in Range(suggested) : b \notin Range(conflicts[a])
                /\ check_conflicts(suggested, conflicts) = <<>>

(* ---------------- the identifier rewrite engine -------------------------- *)
(* src/languages/python/techniques/name_obfuscation.py, lines 280-359.       *)
(* A text is a sequence of one-character strings.                            *)

DQ == "\""

SQ == "'"

BS == "\\"

NL == "\n"

\* the characters \w matches, and so the ones \b separates from the others
WordChars ==
    {"a", "b", "c", "d", "e", "f", "g", "h", "i", "j", "k", "l", "m",
     "n", "o", "p", "q", "r", "s", "t", "u", "v", "w", "x", "y", "z",
     "A", "B", "C", "D", "E", "F", "G", "H", "I", "J", "K", "L", "M",
     "N", "O", "P", "Q", "R", "S", "T", "U", "V", "W", "X", "Y", "Z",
     "0", "1", "2", "3", "4", "5", "6", "7", "8", "9", "_"}

\* the class [fFrRbBuU] of lines 307-310
StringPrefixChars == {"f", "F", "r", "R", "b", "B", "u", "U"}

\* s occurs in code at position p
IsAt(code, p, s) ==
    /\ p >= 1
    /\ p + Len(s) - 1 <= Len(code)
    /\ SubSeq(code, p, p + Len(s) - 1) = s

\* the first position from p on where s occurs, 0 when there is none
RECURSIVE FindFrom(_, _, _)
FindFrom(code, p, s) ==
    IF p + Len(s) - 1 > Len(code) THEN 0
    ELSE IF IsAt(code, p, s) THEN p
    ELSE FindFrom(code, p + 1, s)

\* [fFrRbBuU]* at p: the position after the longest run of prefix letters
RECURSIVE PrefixEnd(_, _)
PrefixEnd(code, p) ==
    IF p <= Len(code) /\ code[p] \in StringPrefixChars
    THEN PrefixEnd(code, p + 1)
    ELSE p

\* lines 307-308 at p: prefix letters, three quotes, the shortest text up to
\* the next three quotes; the position of the last character, 0 for no match
TripleQuotedEnd(code, p, quote) ==
    LET q == PrefixEnd(code, p)
        triple == <<quote, quote, quote>>
    IN  IF IsAt(code, q, triple)
        THEN LET c == FindFrom(code, q + 3, triple)
             IN  IF c = 0 THEN 0 ELSE c + 2
        ELSE 0

\* (?:[^"\\]|\\.)*" from i: a backslash takes the next character with it;
\* the position of the closing quote, 0 when the text ends first
RECURSIVE ClosingQuote(_, _, _)
ClosingQuote(code, i, quote) ==
    IF i > Len(code) THEN 0
    ELSE IF code[i] = quote THEN i
    ELSE IF code[i] = BS THEN ClosingQuote(code, i + 2, quote)
    ELSE ClosingQuote(code, i + 1, quote)

\* lines 309-310 at p
QuotedEnd(code, p, quote) ==
    LET q == PrefixEnd(code, p)
    IN  IF q <= Len(code) /\ code[q] = quote
        THEN ClosingQuote(code, q + 1, quote)
        ELSE 0

\* line 311 at p: from # up to the end of the line
CommentEnd(code, p) ==
    IF code[p] = "#"
    THEN LET n == FindFrom(code, p, <<NL>>)
         IN  IF n = 0 THEN Len(code) ELSE n - 1
    ELSE 0

\* line 314: the combined pattern at p, its alternatives tried in the order
\* of the list; the position of the last matched character, 0 for no match
MatchEnd(code, p) ==
    IF TripleQuotedEnd(code, p, DQ) # 0 THEN TripleQuotedEnd(code, p, DQ)
    ELSE IF TripleQuotedEnd(code, p, SQ) # 0 THEN TripleQuotedEnd(code, p, SQ)
    ELSE IF QuotedEnd(code, p, DQ) # 0 THEN QuotedEnd(code, p, DQ)
    ELSE IF QuotedEnd(code, p, SQ) # 0 THEN QuotedEnd(code, p, SQ)
    ELSE CommentEnd(code, p)

\* \bname\b at position i of part
WordAt(part, i, name) ==
    /\ IsAt(part, i, name)
    /\ i = 1 \/ part[i - 1] \notin WordChars
    /\ i + Len(name) > Len(part) \/ part[i + Len(name)] \notin WordChars

\* re.sub with count=1: only the first occurrence is replaced
RECURSIVE ReplaceFirstWordFrom(_, _, _, _)
ReplaceFirstWordFrom(part, i, original_name, new_name) ==
    IF i > Len(part) THEN <<>>
    ELSE IF WordAt(part, i, original_name)
    THEN new_name \o SubSeq(part, i + Len(original_name), Len(part))
    ELSE <<part[i]>> \o ReplaceFirstWordFrom(part, i + 1, original_name, new_name)

\* re.sub(rf'\b{name}\b', new_name, part) from position i on (lines 321-322,
\* 339-340, 353-354): every occurrence, left to right, without overlap
RECURSIVE ReplaceWordFrom(_, _, _, _)
ReplaceWordFrom(part, i, original_name, new_name) ==
    IF i > Len(part) THEN <<>>
    ELSE IF WordAt(part, i, original_name)
    THEN new_name \o ReplaceWordFrom(part, i + Len(original_name), original_name, new_name)
    ELSE <<part[i]>> \o ReplaceWordFrom(part, i + 1, original_name, new_name)

\* [^}:]+ from i: the position after the run
RECURSIVE ExprEnd(_, _)
ExprEnd(token, i) ==
    IF i <= Len(token) /\ token[i] \notin {"}", ":"}
    THEN ExprEnd(token, i + 1)
    ELSE i

\* line 358: \{([^}:]+)(?::[^}]*)?\} at i; the position of the closing brace,
\* 0 for no match
FieldEnd(token, i) ==
    IF token[i] # "{" THEN 0
    ELSE LET e == ExprEnd(token, i + 1)
         IN  IF e = i + 1 \/ e > Len(token) THEN 0
             ELSE IF token[e] = "}" THEN e
             ELSE FindFrom(token, e + 1, <<"}">>)

\* lines 345-359 from position i on: a matched field becomes '{' + the
\* rewritten expression + '}' (line 355)
RECURSIVE HandleFrom(_, _, _, _)
HandleFrom(token, i, original_name, new_name) ==
    IF i > Len(token) THEN <<>>
    ELSE LET c == FieldEnd(token, i)
         IN  IF c = 0
             THEN <<token[i]>> \o HandleFrom(token, i + 1, original_name, new_name)
             ELSE <<"{">>
                  \o ReplaceWordFrom(SubSeq(token, i + 1, ExprEnd(token, i + 1) - 1),
                                     1, original_name, new_name)
                  \o <<"}">>
                  \o HandleFrom(token, c + 1, original_name, new_name)

_handle_fstring(fstring_token, original_name, new_name) ==
    HandleFrom(fstring_token, 1, original_name, new_name)

\* line 327
IsFString(string_content) ==
    /\ Len(string_content) >= 2
    /\ string_content[1] \in {"f", "F"}
    /\ string_content[2] \in {DQ, SQ}

\* lines 316-343: p is where finditer looks for the next match, current_pos
\* the first position not yet copied to parts
RECURSIVE SafeReplaceFrom(_, _, _, _, _)
SafeReplaceFrom(code, current_pos, p, original_name, new_name) ==
    IF p > Len(code)
    THEN ReplaceWordFrom(SubSeq(code, current_pos, Len(code)), 1, original_name, new_name)
    ELSE LET e == MatchEnd(code, p)
             string_content == SubSeq(code, p, e)
         IN  IF e = 0
             THEN SafeReplaceFrom(code, current_pos, p + 1, original_name, new_name)
             ELSE ReplaceWordFrom(SubSeq(code, current_pos, p - 1), 1,
                                  original_name, new_name)
                  \o (IF IsFString(string_content)
                      THEN _handle_fstring(string_content, original_name, new_name)
                      ELSE string_content)
                  \o SafeReplaceFrom(code, e + 1, e + 1, original_name, new_name)

_safe_replace_identifier(code, original_name, new_name) ==
    SafeReplaceFrom(code, 1, 1, original_name, new_name)

\* a mapping is the sequence of its (name, replacement) items in insertion
\* order; line 285: the names sorted by length, longest first, equal lengths
\* keeping their order
RECURSIVE LongestFirst(_, _)
LongestFirst(m, n) ==
    IF n = 0 THEN <<>>
    ELSE SelectSeq(m, LAMBDA item : Len(item[1]) = n) \o LongestFirst(m, n - 1)

sorted_names(m) ==
    LET lens == {Len(m[i][1]) : i \in DOMAIN m}
    IN  IF lens = {} THEN <<>>
        ELSE LongestFirst(m, CHOOSE n \in lens : \A k \in lens : k <= n)

\* line 289
SkippedName(original_name) ==
    Len(original_name) = 1 /\ original_name[1] \in {"f", "F", "r", "R", "b", "B", "u", "U"}

\* lines 287-293
RECURSIVE ReplaceEach(_, _, _)
ReplaceEach(modified_code, items, i) ==
    IF i > Len(items) THEN modified_code
    ELSE IF SkippedName(items[i][1]) THEN ReplaceEach(modified_code, items, i + 1)
    ELSE ReplaceEach(_safe_replace_identifier(modified_code, items[i][1], items[i][2]),
                     items, i + 1)

\* lines 280-295
_replace_identifiers(code, m) == ReplaceEach(code, sorted_names(m), 1)

(* ---------------- specification of the engine on source texts ------------ *)

\* the pieces the texts are put together from
TextPieces ==
    {<<"a">>, <<"b">>, <<DQ>>, <<DQ, DQ, DQ>>, <<SQ>>, <<BS>>, <<"#">>, <<NL>>}

\* the number of pieces of a text
MaxText == 5

RECURSIVE Flatten(_)
Flatten(pieces) ==
    IF pieces = <<>> THEN <<>> ELSE Head(pieces) \o Flatten(Tail(pieces))

\* the mappings of the runs: two names of different lengths, and a
\* one-letter name that line 289 skips
TextMappings ==
    { << <<<<"a">>, <<"z">>>>, <<<<"a", "b">>, <<"y", "z">>>> >>,
      << <<<<"b">>, <<"z">>>>, <<<<"a">>, <<"y">>>> >> }

InitRewrite ==
    /\ NewManager
    /\ NoRenaming
    /\ \E pieces \in SeqsUpTo(TextPieces, MaxText) : source_code = Flatten(pieces)
    /\ mapping \in TextMappings
    /\ rewritten = <<>>

\* modified_code = self._replace_identifiers(code, mapping)
RewriteText ==
    /\ rewritten = <<>>
    /\ rewritten' = <<_replace_identifiers(source_code, mapping)>>
    /\ UNCHANGED <<registry, request, context, applied_context, ordered_techniques,
                   idx, result, invoked, conflict_list, error, pc,
                   source_code, mapping, renaming>>

NextRewrite == RewriteText

SpecRewrite == InitRewrite /\ [][NextRewrite]_vars

(* The lexical structure of a Python text, position by position: "code",     *)
(* "literal" (a complete string literal that is not interpolated, with its   *)
(* prefix), "fstring" (a complete interpolated literal), "comment", and      *)
(* "unterminated" (from the opening quote of a literal that is never closed  *)
(* to the end of the text).                                                  *)

\* the string prefixes of the language
StringPrefixes ==
    {<<x>> : x \in StringPrefixChars}
        \cup {<<x, y>> : x \in {"f", "F", "b", "B"}, y \in {"r", "R"}}
        \cup {<<x, y>> : x \in {"r", "R"}, y \in {"f", "F", "b", "B"}}

Repeat(kind, n) == [k \in 1..n |-> kind]

\* the last position of the word that position i is in
RECURSIVE WordEnd(_, _)
WordEnd(src, i) ==
    IF i + 1 <= Len(src) /\ src[i + 1] \in WordChars THEN WordEnd(src, i + 1) ELSE i

\* the first position of the word that position i is in
RECURSIVE WordStart(_, _)
WordStart(src, i) ==
    IF i - 1 >= 1 /\ src[i - 1] \in WordChars THEN WordStart(src, i - 1) ELSE i

\* the position where the literal whose body starts at i is closed by delim,
\* a backslash escaping the character after it and a line end closing
\* nothing but ending a literal that is not triple-quoted; 0 when unclosed
RECURSIVE LiteralClose(_, _, _, _)
LiteralClose(src, i, delim, multiline) ==
    IF i > Len(src) THEN 0
    ELSE IF IsAt(src, i, delim) THEN i + Len(delim) - 1
    ELSE IF src[i] = BS THEN LiteralClose(src, i + 2, delim, multiline)
    ELSE IF src[i] = NL /\ ~multiline THEN 0
    ELSE LiteralClose(src, i + 1, delim, multiline)

RECURSIVE SpansFrom(_, _)
RECURSIVE LiteralFrom(_, _, _, _)

\* the literal from its first prefix letter at start, its opening quote at q
LiteralFrom(src, start, q, interpolated) ==
    LET triple == IsAt(src, q, <<src[q], src[q], src[q]>>)
        delim == IF triple THEN <<src[q], src[q], src[q]>> ELSE <<src[q]>>
        e == LiteralClose(src, q + Len(delim), delim, triple)
    IN  IF e = 0
        THEN Repeat("unterminated", Len(src) - start + 1)
        ELSE Repeat(IF interpolated THEN "fstring" ELSE "literal", e - start + 1)
             \o SpansFrom(src, e + 1)

SpansFrom(src, i) ==
    IF i > Len(src) THEN <<>>
    ELSE IF src[i] = "#"
    THEN Repeat("comment", CommentEnd(src, i) - i + 1)
         \o SpansFrom(src, CommentEnd(src, i) + 1)
    ELSE IF src[i] \in {DQ, SQ} THEN LiteralFrom(src, i, i, FALSE)
    ELSE IF src[i] \in WordChars
    THEN LET w == WordEnd(src, i)
             word == SubSeq(src, i, w)
         IN  IF word \in StringPrefixes /\ w < Len(src) /\ src[w + 1] \in {DQ, SQ}
             THEN LiteralFrom(src, i, w + 1, \E k \in DOMAIN word : word[k] \in {"f", "F"})
             ELSE Repeat("code", w - i + 1) \o SpansFrom(src, w + 1)
    ELSE <<"code">> \o SpansFrom(src, i + 1)

Spans(src) == SpansFrom(src, 1)

\* position i of src is in a whole token that is a name of m the engine
\* does not skip
InMappedToken(src, i, m) ==
    /\ src[i] \in WordChars
    /\ \E k \in DOMAIN m :
          /\ ~SkippedName(m[k][1])
          /\ SubSeq(src, WordStart(src, i), WordEnd(src, i)) = m[k][1]

\* C15 as stated: the engine changes no character of a complete string
\* literal that is not interpolated, nor of a line comment
C15_LiteralsAndCommentsKept ==
    rewritten # <<>> =>
        /\ Len(rewritten[1]) = Len(source_code)
        /\ \A i \in DOMAIN source_code :
              Spans(source_code)[i] \in {"literal", "comment"}
                  => rewritten[1][i] = source_code[i]

\* C16 as stated: in code the engine changes a position exactly when it is
\* in a whole token that is a mapped name (one-letter prefix names excepted)
C16_WholeTokensExactly ==
    rewritten # <<>> =>
        /\ Len(rewritten[1]) = Len(source_code)
        /\ \A i \in DOMAIN source_code :
              Spans(source_code)[i] = "code"
                  => ((rewritten[1][i] # source_code[i])
                          <=> InMappedToken(source_code, i, mapping))

\* C18 as stated: the engine returns, and changes nothing from the opening
\* quote of an unterminated literal to the end of the text
C18_UnterminatedRestKept ==
    rewritten # <<>> =>
        /\ Len(rewritten[1]) = Len(source_code)
        /\ \A i \in DOMAIN source_code :
              Spans(source_code)[i] = "unterminated"
                  => rewritten[1][i] = source_code[i]

(* ---------------- specification of the engine on quoted literals --------- *)

\* what stands before the opening quote: nothing, the f prefix, a name, the
\* rf prefix
LiteralHeads == {<<>>, <<"f">>, <<"a">>, <<"r", "f">>}

\* the characters between the quotes
BodyChars == {"a", "{", "}", ":"}

\* the number of characters between the quotes
MaxBody == 5

\* the mappings of the runs: a fresh replacement, a replacement that is a
\* string prefix letter, and a replacement that is itself a name of the mapping
LiteralMappings ==
    { << <<<<"a">>, <<"z">>>> >>,
      << <<<<"a">>, <<"f">>>> >>,
      << <<<<"z">>, <<"y">>>>, <<<<"a">>, <<"z">>>> >> }

InitLiteral ==
    /\ NewManager
    /\ NoRenaming
    /\ \E head \in LiteralHeads, body \in SeqsUpTo(BodyChars, MaxBody) :
          source_code = head \o <<DQ>> \o body \o <<DQ>>
    /\ mapping \in LiteralMappings
    /\ rewritten = <<>>

\* the engine applied to its own output with the same mapping
RewriteAgain ==
    /\ Len(rewritten) = 1
    /\ rewritten' = Append(rewritten, _replace_identifiers(rewritten[1], mapping))
    /\ UNCHANGED <<registry, request, context, applied_context, ordered_techniques,
                   idx, result, invoked, conflict_list, error, pc,
                   source_code, mapping, renaming>>

NextLiteral == RewriteText \/ RewriteAgain

SpecLiteral == InitLiteral /\ [][NextLiteral]_vars

\* no replacement value of m is a name of m
NoValueIsKey(m) == \A i, j \in DOMAIN m : m[i][2] # m[j][1]

\* every name and every replacement of m is an identifier
NamesOnly(m) ==
    \A i \in DOMAIN m :
        /\ m[i][1] # <<>> /\ m[i][2] # <<>>
        /\ \A k \in DOMAIN m[i][1] : m[i][1][k] \in WordChars
        /\ \A k \in DOMAIN m[i][2] : m[i][2][k] \in WordChars

\* no name of m stands in src with a quote character right after it
NoNameBeforeQuote(src, m) ==
    \A i \in DOMAIN m, p \in DOMAIN src :
        IsAt(src, p, m[i][1]) =>
            ~(p + Len(m[i][1]) <= Len(src) /\ src[p + Len(m[i][1])] \in {DQ, SQ})

RECURSIVE BracesPaired(_, _, _)
BracesPaired(src, i, inside) ==
    IF i > Len(src) THEN ~inside
    ELSE IF src[i] = "{" THEN ~inside /\ BracesPaired(src, i + 1, TRUE)
    ELSE IF src[i] = "}" THEN inside /\ BracesPaired(src, i + 1, FALSE)
    ELSE BracesPaired(src, i + 1, inside)

\* C17 as stated, its frame part: rewriting an f-string whose braces enclose
\* expressions changes no character that is not part of a name: braces,
\* colons, quotes and the prefix stay
C17_FStringFrameKept ==
    (rewritten # <<>> /\ IsFString(source_code) /\ BracesPaired(source_code, 1, FALSE)) =>
        /\ Len(rewritten[1]) = Len(source_code)
        /\ \A i \in DOMAIN source_code :
              source_code[i] \notin WordChars => rewritten[1][i] = source_code[i]

(* ---------------- the name techniques in a run of obfuscate -------------- *)
(* src/languages/python/obfuscator.py, name_obfuscation.py,                  *)
(* dynamic_imports.py. A program text is the record of the names it holds:   *)
(* stores (assignment targets), loads (names read), calls (names called),    *)
(* defs (function names), imports (module, imported name).                   *)
(* A name is a sequence: a source name is its label alone, and the name      *)
(* drawn for name n during the k-th technique application is n with k        *)
(* appended; a drawn name is taken never to have been seen before.           *)

N(label) == <<label>>

Fresh(n, k) == Append(n, k)

\* name_obfuscation.py lines 29-62, the names of the list that the programs
\* below hold ('__import__' is not in the list)
reserved_names == {N("print"), N("chr"), N("getattr"), N("globals")}

\* dict.update
Update(d, e) ==
    IF DOMAIN e = {} THEN d
    ELSE [k \in DOMAIN d \cup DOMAIN e |-> IF k \in DOMAIN e THEN e[k] ELSE d[k]]

\* a new name for every name of S, drawn during technique application k
DrawFor(S, k) == IF S = {} THEN <<>> ELSE [n \in S |-> Fresh(n, k)]

Values(d) == {d[k] : k \in DOMAIN d}

Renamed(S, m) == {IF n \in DOMAIN m THEN m[n] ELSE n : n \in S}

\* _replace_identifiers on a program text: every whole-token occurrence of a
\* name of m, wherever it stands
Rename(c, m) ==
    [stores |-> Renamed(c.stores, m),
     loads |-> Renamed(c.loads, m),
     calls |-> Renamed(c.calls, m),
     defs |-> Renamed(c.defs, m),
     imports |-> {<<CHOOSE x \in Renamed({i[1]}, m) : TRUE,
                    CHOOSE x \in Renamed({i[2]}, m) : TRUE>> : i \in c.imports},
     indented |-> c.indented,
     parses |-> c.parses]

NamesOf(c) ==
    c.stores \cup c.loads \cup c.calls \cup c.defs
        \cup {i[1] : i \in c.imports} \cup {i[2] : i \in c.imports}

\* the sources of the runs: print("done") is called; a variable is assigned
\* and read; a function is defined and called; a name is imported and called,
\* the import line standing at the left margin or inside a try block
Features == {"variable", "function", "import", "indented"}

SourceOf(features) ==
    [stores |-> IF "variable" \in features THEN {N("test_variable")} ELSE {},
     loads |-> IF "variable" \in features THEN {N("test_variable")} ELSE {},
     calls |-> {N("print")}
                 \cup (IF "function" \in features THEN {N("helper")} ELSE {})
                 \cup (IF "import" \in features THEN {N("getcwd")} ELSE {}),
     defs |-> IF "function" \in features THEN {N("helper")} ELSE {},
     imports |-> IF "import" \in features THEN {<<N("os"), N("getcwd")>>} ELSE {},
     indented |-> {"import", "indented"} \subseteq features,
     parses |-> TRUE]

\* the registered names of the techniques that handle names
\* (obfuscator.py lines 53, 58, 59, 65, 66)
NameTechniques ==
    {"basic_name_change", "function_name_obfuscation", "variable_name_obfuscation",
     "dynamic_imports", "indirect_function_calls"}

\* the number of techniques of a run
MaxTechniques == 3

\* obfuscator.py lines 33-46: the obfuscator as constructed with its config
InitNames ==
    /\ NewManager
    /\ NoRewrite
    /\ excluded_patterns \in {{}, {N("test_variable")}, {N("helper")}}
    /\ name_mapping = <<>>
    /\ alias_mapping = <<>>
    /\ draws = 0
    /\ obfuscation_context = NoObfuscationContext
    /\ original_code = NoCode
    /\ obfuscated_code = NoCode
    /\ techniques_to_apply = <<>>
    /\ call = NoRun
    /\ NoInvocations

manager == <<registry, rewriting, pc, request, context, applied_context,
             ordered_techniques, idx, result, invoked, conflict_list, error>>

\* a call begins: nothing has been handed on, reported or returned yet
Begun(kind, source) ==
    [count |-> call.count + 1, active |-> TRUE, kind |-> kind, first_draw |-> draws,
     source |-> source, passed |-> {}, failed |-> {}, returned |-> NoRun.returned]

\* obfuscator.py lines 102-140: the context of the run is created and the
\* techniques are handed to apply_techniques
obfuscate(source, techs) ==
    /\ ~call.active
    /\ obfuscation_context' =
          [NoObfuscationContext EXCEPT
              !.keys = {"original_code", "variable_mapping", "function_mapping",
                        "string_mapping", "imports"}]
    /\ original_code' = source
    /\ obfuscated_code' = source
    /\ techniques_to_apply' = techs
    /\ call' = Begun("obfuscate", source)
    /\ UNCHANGED <<manager, interleaving, excluded_patterns, name_mapping, alias_mapping, draws>>

\* the first call on the obfuscator
Obfuscate ==
    /\ call.count = 0
    /\ \E features \in SUBSET Features,
          techs \in DistinctSeqsUpTo(NameTechniques, MaxTechniques) :
           obfuscate(SourceOf(features), techs)

\* technique_manager.py lines 171-182: the next technique of the run
NextIs(technique_name) ==
    /\ call.active
    /\ techniques_to_apply # <<>>
    /\ Head(techniques_to_apply) = technique_name

\* technique_manager.py lines 177-189 without strict_mode: the technique
\* returned or raised, the names of the mapping it handed to the rewrite step
\* are noted, and the loop goes on
Reported(technique_name, raised, passed) ==
    /\ techniques_to_apply' = Tail(techniques_to_apply)
    /\ draws' = draws + 1
    /\ call' = [call EXCEPT !.passed = passed,
                            !.failed = IF raised THEN @ \cup {technique_name} ELSE @]
    /\ UNCHANGED <<manager, interleaving, excluded_patterns, original_code>>

\* name_obfuscation.py lines 235-247
_collect_identifiers(c) == c.stores \cup c.loads \cup c.calls \cup c.defs

\* name_obfuscation.py lines 115-117, 148-150
all_reserved ==
    reserved_names \cup
        (IF "reserved_names" \in obfuscation_context.keys
         THEN obfuscation_context.reserved_names ELSE {})

\* line 367 keeping the reserved names among the identifiers
UnreservedKeepsAll(identifiers) == identifiers

\* name_obfuscation.py line 367: identifiers -= self.reserved_names
Unreserved(identifiers) == identifiers \ reserved_names

\* name_obfuscation.py lines 361-374: a new name for every word of the text,
\* the words of the literal "done" included, that is not reserved
_regex_based_rename(c, k) == DrawFor(Unreserved(NamesOf(c) \cup {N("done")}), k)

\* name_obfuscation.py lines 64-97; line 91 raises KeyError when the context
\* has no variable_mapping, after self.name_mapping was filled
basic_rename ==
    /\ NextIs("basic_name_change")
    /\ IF obfuscated_code.parses
       THEN LET identifiers == _collect_identifiers(obfuscated_code)
                new == {n \in identifiers : n \notin reserved_names /\ n \notin DOMAIN name_mapping}
                nm == Update(name_mapping, DrawFor(new, draws + 1))
            IN  /\ name_mapping' = nm
                /\ IF "variable_mapping" \in obfuscation_context.keys
                   THEN /\ obfuscated_code' = Rename(obfuscated_code, nm)
                        /\ obfuscation_context' =
                              [obfuscation_context EXCEPT !.variable_mapping = Update(@, nm)]
                        /\ Reported("basic_name_change", FALSE, DOMAIN nm)
                   ELSE /\ UNCHANGED <<obfuscated_code, obfuscation_context>>
                        /\ Reported("basic_name_change", TRUE, DOMAIN nm)
       ELSE LET m == _regex_based_rename(obfuscated_code, draws + 1)
            IN  /\ obfuscated_code' = Rename(obfuscated_code, m)
                /\ UNCHANGED <<name_mapping, obfuscation_context>>
                /\ Reported("basic_name_change", FALSE, DOMAIN m)
    /\ UNCHANGED alias_mapping

\* name_obfuscation.py lines 99-130; line 125 raises KeyError when the
\* context has no function_mapping; a text that does not parse is returned
\* as it is
obfuscate_functions ==
    /\ NextIs("function_name_obfuscation")
    /\ IF obfuscated_code.parses
       THEN LET function_mapping == DrawFor(obfuscated_code.defs \ all_reserved, draws + 1)
            IN  IF "function_mapping" \in obfuscation_context.keys
                THEN /\ obfuscated_code' = Rename(obfuscated_code, function_mapping)
                     /\ obfuscation_context' =
                           [obfuscation_context EXCEPT
                               !.function_mapping = Update(@, function_mapping)]
                     /\ Reported("function_name_obfuscation", FALSE, DOMAIN function_mapping)
                ELSE /\ UNCHANGED <<obfuscated_code, obfuscation_context>>
                     /\ Reported("function_name_obfuscation", TRUE, DOMAIN function_mapping)
       ELSE /\ UNCHANGED <<obfuscated_code, obfuscation_context>>
            /\ Reported("function_name_obfuscation", FALSE, {})
    /\ UNCHANGED <<name_mapping, alias_mapping>>

\* name_obfuscation.py lines 132-163; line 158 raises KeyError when the
\* context has no variable_mapping
obfuscate_variables ==
    /\ NextIs("variable_name_obfuscation")
    /\ IF obfuscated_code.parses
       THEN LET variable_mapping == DrawFor(obfuscated_code.stores \ all_reserved, draws + 1)
            IN  IF "variable_mapping" \in obfuscation_context.keys
                THEN /\ obfuscated_code' = Rename(obfuscated_code, variable_mapping)
                     /\ obfuscation_context' =
                           [obfuscation_context EXCEPT
                               !.variable_mapping = Update(@, variable_mapping)]
                     /\ Reported("variable_name_obfuscation", FALSE, DOMAIN variable_mapping)
                ELSE /\ UNCHANGED <<obfuscated_code, obfuscation_context>>
                     /\ Reported("variable_name_obfuscation", TRUE, DOMAIN variable_mapping)
       ELSE /\ UNCHANGED <<obfuscated_code, obfuscation_context>>
            /\ Reported("variable_name_obfuscation", FALSE, {})
    /\ UNCHANGED <<name_mapping, alias_mapping>>

\* name_obfuscation.py lines 165-210: name( becomes proxy( wherever it
\* stands, the def line included, and the proxy functions are put in front
indirect_calls ==
    /\ NextIs("indirect_function_calls")
    /\ LET call_mapping ==
               IF obfuscated_code.parses
               THEN DrawFor(obfuscated_code.calls \ reserved_names, draws + 1)
               ELSE <<>>
       IN  /\ obfuscated_code' =
                 IF DOMAIN call_mapping = {} THEN obfuscated_code
                 ELSE [obfuscated_code EXCEPT
                          !.calls = Renamed(@, call_mapping) \cup {N("globals")},
                          !.defs = Renamed(@, call_mapping) \cup Values(call_mapping),
                          !.loads = @ \cup {N("args"), N("kwargs")}]
           /\ Reported("indirect_function_calls", FALSE, DOMAIN call_mapping)
    /\ UNCHANGED <<name_mapping, alias_mapping, obfuscation_context>>

\* dynamic_imports.py lines 39-102 with 314-377: every import line becomes
\* an assignment to a drawn alias that starts at the left margin, every name
\* of self.alias_mapping is replaced by its alias, and modules, imported
\* names and aliases are added to context['reserved_names']
obfuscate_imports ==
    /\ NextIs("dynamic_imports")
    /\ LET imported == {i[2] : i \in obfuscated_code.imports}
           reserved_modules == {i[1] : i \in obfuscated_code.imports}
           am == Update(alias_mapping, DrawFor(imported, draws + 1))
           assigned ==
               IF imported = {} THEN obfuscated_code
               ELSE [obfuscated_code EXCEPT
                        !.imports = {},
                        !.stores = @ \cup {am[b] : b \in imported} \cup {N("char_code")},
                        !.loads = @ \cup {N("char_code")},
                        !.calls = @ \cup {N("getattr"), N("__import__"), N("chr")},
                        !.parses = @ /\ ~obfuscated_code.indented]
       IN  /\ alias_mapping' = am
           /\ obfuscated_code' = Rename(assigned, am)
           /\ obfuscation_context' =
                 [obfuscation_context EXCEPT
                     !.keys = @ \cup {"alias_mapping", "reserved_names"},
                     !.alias_mapping = Update(@, am),
                     !.reserved_names = @ \cup reserved_modules \cup imported \cup Values(am)]
    /\ Reported("dynamic_imports", FALSE, {})
    /\ UNCHANGED name_mapping

\* string_obfuscation.py lines 27-72 on a text that holds print("done"): the
\* literal becomes ''.join([chr(char_code) for char_code in [...]])
encode_strings(c) ==
    [c EXCEPT !.stores = @ \cup {N("char_code")},
              !.loads = @ \cup {N("char_code")},
              !.calls = @ \cup {N("chr")}]

\* line 275 handing the text of the pipeline to the fallback
FallbackSourcePipeline == obfuscated_code

\* obfuscator.py line 275: self.obfuscation_context['original_code']
FallbackSource == original_code

\* obfuscator.py lines 282-283
_apply_basic_fallback(c) == encode_strings(c)

\* obfuscator.py lines 143-145 with 256-278: the text of the pipeline is
\* parsed, and obfuscate returns it or the fallback
_final_cleanup ==
    /\ call.active
    /\ call.kind = "obfuscate"
    /\ techniques_to_apply = <<>>
    /\ call' = [call EXCEPT
                   !.active = FALSE,
                   !.returned =
                       IF obfuscated_code.parses
                       THEN [from |-> "pipeline", code |-> obfuscated_code]
                       ELSE [from |-> "fallback",
                             code |-> _apply_basic_fallback(FallbackSource)]]
    /\ UNCHANGED <<manager, interleaving, excluded_patterns, name_mapping, alias_mapping, draws,
                   obfuscation_context, original_code, obfuscated_code,
                   techniques_to_apply>>

NextNames ==
    \/ Obfuscate
    \/ basic_rename
    \/ obfuscate_functions
    \/ obfuscate_variables
    \/ indirect_calls
    \/ obfuscate_imports
    \/ _final_cleanup

SpecNames == InitNames /\ [][NextNames]_vars

\* C19 as stated: a name of excluded_patterns is never a key of
\* variable_mapping or function_mapping, and where the source holds it the
\* text handed on by the techniques still holds it
C19_ExcludedNamesKept ==
    \A n \in excluded_patterns :
        /\ n \notin DOMAIN obfuscation_context.variable_mapping
        /\ n \notin DOMAIN obfuscation_context.function_mapping
        /\ n \in NamesOf(original_code) => n \in NamesOf(obfuscated_code)

\* C20 as stated: a technique step neither makes a name that is already in
\* context['reserved_names'] a key of variable_mapping or function_mapping
\* nor replaces it where it stands in the text
C20_ReservedNamesKept ==
    [][\A n \in obfuscation_context.reserved_names :
          /\ n \in DOMAIN obfuscation_context'.variable_mapping
                => n \in DOMAIN obfuscation_context.variable_mapping
          /\ n \in DOMAIN obfuscation_context'.function_mapping
                => n \in DOMAIN obfuscation_context.function_mapping
          /\ n \in obfuscated_code.stores => n \in obfuscated_code'.stores
          /\ n \in obfuscated_code.loads => n \in obfuscated_code'.loads
          /\ n \in obfuscated_code.calls => n \in obfuscated_code'.calls
          /\ n \in obfuscated_code.defs => n \in obfuscated_code'.defs]_vars

(* ---------------- calls on one obfuscator, one after the other ----------- *)

\* the number of calls on the obfuscator
MaxCalls == 2

\* the number of techniques of one of these calls
MaxRunTechniques == 2

\* the sources of these calls: one that assigns a variable, one that defines
\* a function, one that imports inside a block
RunSources ==
    {{"variable"}, {"function"}, {"import", "indented"}}

\* a new obfuscator
InitRuns ==
    /\ InitNames
    /\ excluded_patterns = {}

\* obfuscate(source) with self.techniques set
ObfuscateRun ==
    /\ call.count < MaxCalls
    /\ \E features \in RunSources,
          techs \in DistinctSeqsUpTo(NameTechniques, MaxRunTechniques) :
           obfuscate(SourceOf(features), techs)

\* technique_manager.py lines 141-169 called without a context: line 169
\* makes the empty dictionary the techniques are handed
apply_name_techniques(source, techs) ==
    /\ ~call.active
    /\ obfuscation_context' = NoObfuscationContext
    /\ original_code' = NoCode
    /\ obfuscated_code' = source
    /\ techniques_to_apply' = techs
    /\ call' = Begun("apply_techniques", source)
    /\ UNCHANGED <<manager, interleaving, excluded_patterns, name_mapping, alias_mapping, draws>>

ApplyRun ==
    /\ call.count < MaxCalls
    /\ \E features \in RunSources,
          techs \in DistinctSeqsUpTo(NameTechniques, MaxRunTechniques) :
           apply_name_techniques(SourceOf(features), techs)

\* technique_manager.py line 191: apply_techniques returns result
ReturnResult ==
    /\ call.active
    /\ call.kind = "apply_techniques"
    /\ techniques_to_apply = <<>>
    /\ call' = [call EXCEPT !.active = FALSE,
                            !.returned = [from |-> "pipeline", code |-> obfuscated_code]]
    /\ UNCHANGED <<manager, interleaving, excluded_patterns, name_mapping, alias_mapping, draws,
                   obfuscation_context, original_code, obfuscated_code,
                   techniques_to_apply>>

\* calls of obfuscate, one after the other
NextRuns ==
    \/ ObfuscateRun
    \/ basic_rename
    \/ obfuscate_functions
    \/ obfuscate_variables
    \/ indirect_calls
    \/ obfuscate_imports
    \/ _final_cleanup

SpecRuns == InitRuns /\ [][NextRuns]_vars

\* calls of apply_techniques without a context, one after the other
NextApply ==
    \/ ApplyRun
    \/ basic_rename
    \/ obfuscate_functions
    \/ obfuscate_variables
    \/ indirect_calls
    \/ obfuscate_imports
    \/ ReturnResult

SpecApply == InitRuns /\ [][NextApply]_vars

\* the mappings a technique sees in the context of the call under way
ContextMappings ==
    {obfuscation_context.variable_mapping, obfuscation_context.function_mapping,
     obfuscation_context.alias_mapping}

\* the entry of name n in m was drawn during the call under way
DrawnInThisCall(m, n) == m[n][Len(m[n])] > call.first_draw

\* C21 as stated: an entry of variable_mapping, function_mapping or
\* alias_mapping in the context of an obfuscate call was drawn during that
\* call, or at least its name is a name of that call's source
C21_FreshRunState ==
    call.kind = "obfuscate" =>
        \A m \in ContextMappings :
            \A n \in DOMAIN m : DrawnInThisCall(m, n) \/ n \in NamesOf(call.source)

\* the techniques that write to variable_mapping or function_mapping
MappingTechniques ==
    {"basic_name_change", "function_name_obfuscation", "variable_name_obfuscation"}

\* C23 as stated: handed the empty dictionary, basic_rename,
\* obfuscate_functions and obfuscate_variables are not reported as failed
C23_EmptyContextTakesEffect ==
    call.kind = "apply_techniques" => call.failed \cap MappingTechniques = {}

\* C24: no name of the built-in reserved set is a name of the mapping that
\* basic_rename, obfuscate_functions, obfuscate_variables, indirect_calls or
\* the regex fallback hand to the rewrite step
C24_ReservedNeverPassed == call.passed \cap reserved_names = {}

\* the regex fallback has handed on a mapping for a text that calls print
C24_Witness ==
    /\ ~obfuscated_code.parses
    /\ N("done") \in call.passed
    /\ N("print") \in obfuscated_code.calls

\* C26, two consequences of it: the program that obfuscate returns assigns
\* every variable the source assigns, under its name, and imports from a
\* module only names the source imports from it
C26_SameObservableResults ==
    (call.kind = "obfuscate" /\ call.returned.from # "none") =>
        /\ call.source.stores \subseteq call.returned.code.stores
        /\ call.returned.code.imports \subseteq call.source.imports

\* C29: what obfuscate returns is the text of the pipeline when that
\* parses, and otherwise the string encoding of the source this call was
\* given; a text that does not parse is never returned
C29_FallbackFromOwnSource ==
    (call.kind = "obfuscate" /\ call.returned.from # "none") =>
        /\ call.returned.code.parses
        /\ obfuscated_code.parses =>
              call.returned = [from |-> "pipeline", code |-> obfuscated_code]
        /\ ~obfuscated_code.parses =>
              call.returned = [from |-> "fallback", code |-> encode_strings(call.source)]

\* the second call on the obfuscator has returned the fallback
C29_Witness ==
    /\ call.count = 2
    /\ call.returned.from = "fallback"
    /\ obfuscated_code # call.source
    /\ name_mapping # <<>>

(* ---------------- numeric obfuscation ------------------------------------ *)
(* src/languages/python/obfuscator.py, lines 147-166. The text is one        *)
(* integer literal; the replacement is the text re.sub puts in its place.    *)

\* the largest literal of the runs
MaxLiteral == 120

DigitChars == <<"0", "1", "2", "3", "4", "5", "6", "7", "8", "9">>

RECURSIVE str(_)

\* the decimal digits an f-string writes for a number
str(x) ==
    IF x < 10 THEN <<DigitChars[x + 1]>>
    ELSE str(x \div 10) \o <<DigitChars[(x % 10) + 1]>>

DigitValue(c) == CHOOSE d \in 0..9 : DigitChars[d + 1] = c

RECURSIVE int(_)

\* int(match.group()): the number a run of decimal digits stands for
int(digits) ==
    IF digits = <<>> THEN 0
    ELSE int(SubSeq(digits, 1, Len(digits) - 1)) * 10 + DigitValue(digits[Len(digits)])

\* line 158 writing the doubled half for an odd number as well
operationsEvenForm(choice, x) ==
    IF choice = 1 THEN <<"(">> \o str(x \div 2) \o <<"*", "2", ")">>
    ELSE IF choice = 2 THEN <<"(">> \o str(x) \o <<"+", "0", ")">>
    ELSE <<"(", "i", "n", "t", "(", SQ>> \o str(x) \o <<SQ, ")", ")">>

\* lines 157-161: the three forms random.choice picks from
operations(choice, x) ==
    IF choice = 1
    THEN IF x % 2 = 0 THEN <<"(">> \o str(x \div 2) \o <<"*", "2", ")">>
         ELSE <<"(">> \o str(x \div 2) \o <<"*", "2", "+", "1", ")">>
    ELSE IF choice = 2 THEN <<"(">> \o str(x) \o <<"+", "0", ")">>
    ELSE <<"(", "i", "n", "t", "(", SQ>> \o str(x) \o <<SQ, ")", ")">>

\* lines 149-164
replace_number(match, choice) ==
    LET num == int(match)
    IN  IF num = 0 THEN <<"(", "1", "-", "1", ")">>
        ELSE IF num = 1 THEN <<"(", "2", "-", "1", ")">>
        ELSE IF num > 1 /\ num < 100 THEN operations(choice, num)
        ELSE match

\* the source holds one integer literal: a number in decimal digits, or 00
InitNumbers ==
    /\ NewManager
    /\ NoRenaming
    /\ \/ \E n \in 0..MaxLiteral : source_code = str(n)
       \/ source_code = <<"0", "0">>
    /\ mapping = <<>>
    /\ rewritten = <<>>

\* line 166: re.sub puts replace_number's text in the place of the literal
_obfuscate_numbers ==
    /\ rewritten = <<>>
    /\ \E choice \in 1..3 : rewritten' = <<replace_number(source_code, choice)>>
    /\ UNCHANGED <<registry, request, context, applied_context, ordered_techniques,
                   idx, result, invoked, conflict_list, error, pc,
                   source_code, mapping, renaming>>

NextNumbers == _obfuscate_numbers

SpecNumbers == InitNumbers /\ [][NextNumbers]_vars

(* The value Python gives an expression of the forms above: numbers, int of  *)
(* a quoted number, parentheses, * before + and -, from left to right.       *)

RECURSIVE DigitsEnd(_, _)

\* the position after the run of digits that starts at i
DigitsEnd(text, i) ==
    IF i <= Len(text) /\ text[i] \in Range(DigitChars) THEN DigitsEnd(text, i + 1) ELSE i

RECURSIVE Factor(_, _), TermRest(_, _), ExprRest(_, _)

Term(text, i) == TermRest(text, Factor(text, i))

Expr(text, i) == ExprRest(text, Term(text, i))

Factor(text, i) ==
    IF IsAt(text, i, <<"i", "n", "t", "(", SQ>>)
    THEN LET e == DigitsEnd(text, i + 5)
         IN  [v |-> int(SubSeq(text, i + 5, e - 1)),
              next |-> IF IsAt(text, e, <<SQ, ")">>) THEN e + 2 ELSE 0]
    ELSE IF IsAt(text, i, <<"(">>)
    THEN LET r == Expr(text, i + 1)
         IN  [v |-> r.v, next |-> IF IsAt(text, r.next, <<")">>) THEN r.next + 1 ELSE 0]
    ELSE LET e == DigitsEnd(text, i)
         IN  [v |-> int(SubSeq(text, i, e - 1)), next |-> IF e > i THEN e ELSE 0]

TermRest(text, acc) ==
    IF IsAt(text, acc.next, <<"*">>)
    THEN LET f == Factor(text, acc.next + 1)
         IN  TermRest(text, [v |-> acc.v * f.v, next |-> f.next])
    ELSE acc

ExprRest(text, acc) ==
    IF IsAt(text, acc.next, <<"+">>)
    THEN LET t == Term(text, acc.next + 1)
         IN  ExprRest(text, [v |-> acc.v + t.v, next |-> t.next])
    ELSE IF IsAt(text, acc.next, <<"-">>)
    THEN LET t == Term(text, acc.next + 1)
         IN  ExprRest(text, [v |-> acc.v - t.v, next |-> t.next])
    ELSE acc

\* the text is an expression from its first to its last character
IsExpression(text) == Expr(text, 1).next = Len(text) + 1

Value(text) == Expr(text, 1).v

\* C30: the text put in the place of an integer literal n <= 99 is an
\* expression of one of the listed forms whose value is n, and a literal
\* n >= 100 is left as it is
C30_ReplacementHasTheValue ==
    rewritten # <<>> =>
        LET n == int(source_code)
            half == str(n \div 2)
        IN  /\ n <= 99 =>
                 /\ IsExpression(rewritten[1])
                 /\ Value(rewritten[1]) = n
                 /\ rewritten[1] \in
                       {<<"(", "1", "-", "1", ")">>, <<"(", "2", "-", "1", ")">>,
                        <<"(">> \o half \o <<"*", "2", ")">>,
                        <<"(">> \o half \o <<"*", "2", "+", "1", ")">>,
                        <<"(">> \o str(n) \o <<"+", "0", ")">>,
                        <<"(", "i", "n", "t", "(", SQ>> \o str(n) \o <<SQ, ")", ")">>}
            /\ n >= 100 => rewritten[1] = source_code

\* 97 has been replaced by (48*2+1)
C30_Witness ==
    /\ source_code = <<"9", "7">>
    /\ rewritten = << <<"(", "4", "8", "*", "2", "+", "1", ")">> >>

(* ---------------- dynamic imports on source texts ------------------------ *)
(* src/languages/python/techniques/dynamic_imports.py, lines 39-102 and      *)
(* 314-381. The texts hold one import line "import <name>" followed by       *)
(* lines without import statements; no name is dotted and no line has an     *)
(* "as" clause.                                                              *)

\* the number of pieces of the text after the import line
MaxRest == 3

\* the modules the import line names
Modules == {<<"a">>, <<"b">>}

\* ord() of the characters of the module names
Ord(c) == IF c = "a" THEN 97 ELSE 98

\* the name lines 28-37 draw: letters the text does not hold, here as long as
\* the names of the texts
_generate_alias_name == <<"z">>

RECURSIVE CharCodes(_, _)

\* ', '.join(char_codes)
CharCodes(text, i) ==
    IF i > Len(text) THEN <<>>
    ELSE (IF i > 1 THEN <<",", " ">> ELSE <<>>) \o str(Ord(text[i])) \o CharCodes(text, i + 1)

\* lines 378-381
_obfuscate_string(text) ==
    <<SQ, SQ, ".", "j", "o", "i", "n", "(", "[", "c", "h", "r", "(", "c", "h", "a", "r", "_", "c", "o", "d", "e", ")", " ", "f", "o", "r", " ", "c", "h", "a", "r", "_", "c", "o", "d", "e", " ", "i", "n", " ", "[">>
        \o CharCodes(text, 1) \o <<"]", "]", ")">>

RECURSIVE SplitLines(_, _, _)

\* code.split('\n') from position i on, current being the line so far
SplitLines(code, i, current) ==
    IF i > Len(code) THEN <<current>>
    ELSE IF code[i] = NL THEN <<current>> \o SplitLines(code, i + 1, <<>>)
    ELSE SplitLines(code, i + 1, Append(current, code[i]))

RECURSIVE JoinLines(_)

\* '\n'.join(result)
JoinLines(lines) ==
    IF Len(lines) = 0 THEN <<>>
    ELSE IF Len(lines) = 1 THEN lines[1]
    ELSE lines[1] \o <<NL>> \o JoinLines(Tail(lines))

RECURSIVE strip(_)

\* line.strip() for the blank
strip(line) ==
    IF line # <<>> /\ line[1] = " " THEN strip(Tail(line))
    ELSE IF line # <<>> /\ line[Len(line)] = " " THEN strip(SubSeq(line, 1, Len(line) - 1))
    ELSE line

RECURSIVE BlanksEnd(_, _)

\* \s+ from i: the position after the run of blanks
BlanksEnd(line, i) ==
    IF i <= Len(line) /\ line[i] = " " THEN BlanksEnd(line, i + 1) ELSE i

\* line 325, ^import\s+(\w+)$: the module the line imports, <<>> for no match
import_match(stripped) ==
    IF ~IsAt(stripped, 1, <<"i", "m", "p", "o", "r", "t">>) THEN <<>>
    ELSE LET m == BlanksEnd(stripped, 7)
             module == SubSeq(stripped, m, Len(stripped))
         IN  IF m > 7 /\ module # <<>> /\ \A k \in DOMAIN module : module[k] \in WordChars
             THEN module ELSE <<>>

\* lines 331-335: alias = __import__(<module as character codes>)
ImportAssignment(obfuscated_alias, module) ==
    obfuscated_alias \o <<" ", "=", " ", "_", "_", "i", "m", "p", "o", "r", "t", "_", "_", "(">>
        \o _obfuscate_string(module) \o <<")">>

\* lines 316-376 on the lines of the text: an import line gives an entry of
\* self.alias_mapping and is replaced, every other line is kept
_regex_based_import_obfuscation(code) ==
    LET lines == SplitLines(code, 1, <<>>)
        imported == {import_match(strip(lines[k])) : k \in DOMAIN lines} \ {<<>>}
    IN  [aliases |-> IF imported = {} THEN <<>>
                     ELSE [module \in imported |-> _generate_alias_name],
         text |-> JoinLines([k \in DOMAIN lines |->
                                IF import_match(strip(lines[k])) # <<>>
                                THEN ImportAssignment(_generate_alias_name,
                                                      import_match(strip(lines[k])))
                                ELSE lines[k]])]

\* the last position of the run of word characters, or of other characters,
\* that begins at i
RunEnd(text, i) ==
    CHOOSE j \in i..Len(text) :
        /\ \A k \in i..j : (text[k] \in WordChars) = (text[i] \in WordChars)
        /\ j < Len(text) => (text[j + 1] \in WordChars) # (text[i] \in WordChars)

RECURSIVE SubWordFrom(_, _, _, _)

\* lines 56-57: re.sub(r'\b' + re.escape(original_name) + r'\b', alias, result)
\* from the run that begins at i; original_name is made of word characters,
\* so a match is a whole run of word characters equal to it
SubWordFrom(text, i, original_name, alias) ==
    IF i > Len(text) THEN <<>>
    ELSE LET j == RunEnd(text, i)
         IN  (IF SubSeq(text, i, j) = original_name THEN alias ELSE SubSeq(text, i, j))
                 \o SubWordFrom(text, j + 1, original_name, alias)

RECURSIVE ReplaceReferences(_, _, _)

\* lines 53-57: the substitution over the whole text for every entry of
\* self.alias_mapping (names being the entries still to do)
ReplaceReferences(text, am, names) ==
    IF names = {} THEN text
    ELSE LET original_name == CHOOSE n \in names : TRUE
         IN  ReplaceReferences(SubWordFrom(text, 1, original_name, am[original_name]),
                               am, names \ {original_name})

\* a new DynamicImportObfuscator and a text with an import line
InitImports ==
    /\ NewManager
    /\ NoRenaming
    /\ \E module \in Modules, pieces \in SeqsUpTo(TextPieces, MaxRest) :
          source_code = <<"i", "m", "p", "o", "r", "t", " ">> \o module
                            \o <<NL>> \o Flatten(pieces)
    /\ mapping = <<>>
    /\ rewritten = <<>>

\* lines 39-102: obfuscate_imports(code, context) with an empty dictionary
ObfuscateImportsOfText ==
    /\ rewritten = <<>>
    /\ LET r == _regex_based_import_obfuscation(source_code)
           am == Update(alias_mapping, r.aliases)
       IN  /\ alias_mapping' = am
           /\ rewritten' = <<ReplaceReferences(r.text, am, DOMAIN am)>>
           /\ obfuscation_context' =
                 [obfuscation_context EXCEPT
                     !.keys = @ \cup {"alias_mapping", "reserved_names"},
                     !.alias_mapping = Update(@, am),
                     !.reserved_names = @ \cup DOMAIN r.aliases \cup Values(am)]
    /\ UNCHANGED <<registry, request, context, applied_context, ordered_techniques,
                   idx, result, invoked, conflict_list, error, pc,
                   source_code, mapping, excluded_patterns, name_mapping, draws,
                   original_code, obfuscated_code, techniques_to_apply, call,
                   interleaving>>

NextImports == ObfuscateImportsOfText

SpecImports == InitImports /\ [][NextImports]_vars

\* the position after the first line and its line end
RestStart(text) == FindFrom(text, 1, <<NL>>) + 1

\* C27 as stated: below the import line, the technique changes no character
\* of a complete string literal that is not interpolated, nor of a comment
C27_AliasOnlyInCode ==
    rewritten # <<>> =>
        LET from == RestStart(source_code)
            to == RestStart(rewritten[1])
        IN  /\ Len(rewritten[1]) - to = Len(source_code) - from
            /\ \A i \in from..Len(source_code) :
                  Spans(source_code)[i] \in {"literal", "comment"}
                      => rewritten[1][i - from + to] = source_code[i]

(* ---------------- two invocations of obfuscate at the same time ---------- *)
(* src/languages/python/obfuscator.py, lines 102-145 and 256-283, for two    *)
(* threads that call obfuscate on one PythonObfuscator. A step is what a     *)
(* thread does between two points where the interpreter may switch threads.  *)
(* What is local to an invocation (source_code, obfuscated_code, the         *)
(* argument handed to apply_techniques) is a field of its record; the        *)
(* attribute self.obfuscation_context is shared, and context_owner names     *)
(* the invocation that created the dictionary it refers to.                  *)

\* the two invocations
Invocations == {"first", "second"}

\* the sources handed to them
ConcurrentSources == {SourceOf({"variable"}), SourceOf({"import", "indented"})}

\* an invocation that has not begun
NotBegun ==
    [at |-> "idle", source_code |-> NoCode, context |-> 0,
     obfuscated_code |-> NoCode, returned |-> NoRun.returned]

\* the number that stands for the dictionary an invocation creates
Dictionary(t) == IF t = "first" THEN 1 ELSE 2

\* the invocation that created dictionary d
CreatorOf(d) == CHOOSE t \in Invocations : Dictionary(t) = d

\* the texts apply_techniques can return for a source: the source, or, for an
\* import inside a block handled by dynamic_imports, a text that no longer
\* parses (dynamic_imports.py lines 314-376 drop the indentation)
PipelineTexts(c) ==
    {c} \cup (IF c.indented THEN {[c EXCEPT !.parses = FALSE]} ELSE {})

InitConcurrent ==
    /\ NewManager
    /\ NoRewrite
    /\ excluded_patterns = {}
    /\ name_mapping = <<>>
    /\ alias_mapping = <<>>
    /\ draws = 0
    /\ obfuscation_context = NoObfuscationContext
    /\ original_code = NoCode
    /\ obfuscated_code = NoCode
    /\ techniques_to_apply = <<>>
    /\ call = NoRun
    /\ invocations = [t \in Invocations |-> NotBegun]
    /\ context_owner = 0

\* what the steps of an invocation leave alone
ConcurrentFrame ==
    UNCHANGED <<manager, excluded_patterns, name_mapping, alias_mapping, draws,
                obfuscation_context, original_code, obfuscated_code,
                techniques_to_apply, call>>

\* obfuscator.py lines 113-125: the source parses and a new dictionary that
\* holds it as original_code is assigned to self.obfuscation_context
CreateContext(t) ==
    /\ invocations[t].at = "idle"
    /\ \E c \in ConcurrentSources :
          invocations' = [invocations EXCEPT ![t] =
                             [NotBegun EXCEPT !.at = "created", !.source_code = c,
                                              !.obfuscated_code = c]]
    /\ context_owner' = Dictionary(t)
    /\ ConcurrentFrame

\* obfuscator.py lines 136-140: the arguments of apply_techniques are
\* evaluated, the third one by reading self.obfuscation_context
CallApplyTechniques(t) ==
    /\ invocations[t].at = "created"
    /\ invocations' = [invocations EXCEPT ![t].at = "applying",
                                          ![t].context = context_owner]
    /\ UNCHANGED context_owner
    /\ ConcurrentFrame

\* technique_manager.py lines 171-191: the techniques have run on the
\* dictionary they were handed and apply_techniques returns its text
ReturnFromApplyTechniques(t) ==
    /\ invocations[t].at = "applying"
    /\ \E c \in PipelineTexts(invocations[t].source_code) :
          invocations' = [invocations EXCEPT ![t].at = "applied",
                                             ![t].obfuscated_code = c]
    /\ UNCHANGED context_owner
    /\ ConcurrentFrame

\* obfuscator.py line 275: self.obfuscation_context['original_code'], the
\* original_code of whatever dictionary the attribute refers to at that time
FallbackSourceOf(t) == invocations[CreatorOf(context_owner)].source_code

\* obfuscator.py lines 143-145 with 256-278: the final check and the return
FinalCleanup(t) ==
    /\ invocations[t].at = "applied"
    /\ invocations' =
          [invocations EXCEPT
              ![t].at = "returned",
              ![t].returned =
                  IF invocations[t].obfuscated_code.parses
                  THEN [from |-> "pipeline", code |-> invocations[t].obfuscated_code]
                  ELSE [from |-> "fallback",
                        code |-> _apply_basic_fallback(FallbackSourceOf(t))]]
    /\ UNCHANGED context_owner
    /\ ConcurrentFrame

NextConcurrent ==
    \E t \in Invocations :
        \/ CreateContext(t)
        \/ CallApplyTechniques(t)
        \/ ReturnFromApplyTechniques(t)
        \/ FinalCleanup(t)

SpecConcurrent == InitConcurrent /\ [][NextConcurrent]_vars

\* C22 as stated: the techniques of an invocation are handed the dictionary
\* that this invocation created, and a fallback that an invocation returns is
\* the string encoding of this invocation's own source
C22_ContextNeverShared ==
    \A t \in Invocations :
        /\ invocations[t].context \in {0, Dictionary(t)}
        /\ invocations[t].returned.from = "fallback" =>
              invocations[t].returned.code = encode_strings(invocations[t].source_code)

============================================================================
